---- MODULE Spec2Model ----
(***************************************************************************)
(* minigrep (src/lib.rs): Config::build, run, the two SearchStrategy       *)
(* implementations and search_strategy_factory.                            *)
(*                                                                         *)
(* A string is a sequence of characters; a character is one of the names   *)
(* in Alphabet ("LF" is U+000A, "CR" is U+000D, "APOS" is U+0027, "SIGMA"  *)
(* is U+03A3, "sigma" is U+03C3, "fsigma" is U+03C2).                      *)
(***************************************************************************)
EXTENDS Integers, Sequences, FiniteSets, TLC

VARIABLES
    args,          \* the process arguments handed to Config::build
    env,           \* the state of the IGNORE_CASE environment variable
    pc,            \* position of the program
    buildResult,   \* Result<Config, &str> of Config::build
    fsReads,       \* every fs::read_to_string call so far: path and outcome
    contents,      \* run's local `contents`
    strategy,      \* run's local `strategy`
    results,       \* run's local `results`
    printed,       \* iterations of run's for loop completed
    stdout,        \* characters written to standard output
    runResult      \* Result<(), Box<dyn Error>> of run

vars == <<args, env, pc, buildResult, fsReads, contents, strategy, results,
          printed, stdout, runResult>>

None == <<"None">>

(* ---------------------------------------------------------------- bounds *)
MaxArgs == 4
MaxFileLen == 3
MaxQueryLen == 2
MaxContentLen == 3

(* ------------------------------------------------------------ characters *)
Alphabet == {"LF", "CR", "APOS", "a", "A", "SIGMA", "sigma"}

StringsUpTo(n) == UNION {[1..k -> Alphabet] : k \in 0..n}

\* Unicode property Cased, restricted to the characters of the model
Cased(c) == c \in {"a", "A", "SIGMA", "sigma", "fsigma"}

\* Unicode property Case_Ignorable, restricted to the characters of the model
Case_Ignorable(c) == c = "APOS"

Reverse(s) == [i \in 1..Len(s) |-> s[Len(s) + 1 - i]]

RECURSIVE case_ignorable_then_cased(_)
case_ignorable_then_cased(t) ==
    IF t = <<>> THEN FALSE
    ELSE IF Case_Ignorable(Head(t)) THEN case_ignorable_then_cased(Tail(t))
    ELSE Cased(Head(t))

\* Final_Sigma: U+03A3 at position i of s is preceded by a cased letter and
\* not followed by one (case-ignorable characters skipped on both sides)
is_word_final(s, i) ==
    /\ case_ignorable_then_cased(Reverse(SubSeq(s, 1, i - 1)))
    /\ ~case_ignorable_then_cased(SubSeq(s, i + 1, Len(s)))

\* the lowercase mapping of the character at position i of s
lower_char(s, i) ==
    IF s[i] = "SIGMA" THEN (IF is_word_final(s, i) THEN "fsigma" ELSE "sigma")
    ELSE IF s[i] = "A" THEN "a"
    ELSE s[i]

\* str::to_lowercase
to_lowercase(s) == [i \in 1..Len(s) |-> lower_char(s, i)]

\* str::contains with a string pattern
contains(haystack, needle) ==
    \E i \in 1..(Len(haystack) + 1) :
        /\ i + Len(needle) - 1 <= Len(haystack)
        /\ SubSeq(haystack, i, i + Len(needle) - 1) = needle

(* ----------------------------------------------------------- str::lines *)
\* length of the first piece of split_inclusive('\n'): up to and including
\* the first LF, or the whole string when there is none
RECURSIVE first_piece_len(_)
first_piece_len(s) ==
    IF s = <<>> THEN 0
    ELSE IF Head(s) = "LF" THEN 1
    ELSE 1 + first_piece_len(Tail(s))

RECURSIVE split_inclusive(_)
split_inclusive(s) ==
    IF s = <<>> THEN <<>>
    ELSE LET n == first_piece_len(s)
         IN  <<SubSeq(s, 1, n)>> \o split_inclusive(SubSeq(s, n + 1, Len(s)))

\* strip_suffix('\n'), then strip_suffix('\r') only when the LF was there
strip_line_ending(piece) ==
    IF piece # <<>> /\ piece[Len(piece)] = "LF"
    THEN LET l == SubSeq(piece, 1, Len(piece) - 1)
         IN  IF l # <<>> /\ l[Len(l)] = "CR" THEN SubSeq(l, 1, Len(l) - 1) ELSE l
    ELSE piece

lines_dropping_unterminated(s) ==
    LET p == split_inclusive(s)
        q == IF p # <<>> /\ p[Len(p)][Len(p[Len(p)])] # "LF"
             THEN SubSeq(p, 1, Len(p) - 1) ELSE p
    IN  [i \in 1..Len(q) |-> strip_line_ending(q[i])]

lines(s) ==
    LET p == split_inclusive(s)
    IN  [i \in 1..Len(p) |-> strip_line_ending(p[i])]

(* ------------------------------------------------------ search strategies *)
RECURSIVE sensitive_loop(_, _, _)
sensitive_loop(query, ls, acc) ==
    IF ls = <<>> THEN acc
    ELSE sensitive_loop(query, Tail(ls),
                        IF contains(Head(ls), query)
                        THEN Append(acc, Head(ls)) ELSE acc)

RECURSIVE prefix_loop(_, _, _)
prefix_loop(query, ls, acc) ==
    IF ls = <<>> THEN acc
    ELSE prefix_loop(query, Tail(ls),
                     IF Len(query) <= Len(Head(ls))
                        /\ SubSeq(Head(ls), 1, Len(query)) = query
                     THEN Append(acc, Head(ls)) ELSE acc)

\* the loop with starts_with in place of contains
CaseSensitiveSearch_starts_with(query, text) == prefix_loop(query, lines(text), <<>>)

CaseSensitiveSearch(query, text) == sensitive_loop(query, lines(text), <<>>)

RECURSIVE insensitive_loop(_, _, _)
insensitive_loop(query, ls, acc) ==
    IF ls = <<>> THEN acc
    ELSE insensitive_loop(query, Tail(ls),
                          IF contains(to_lowercase(Head(ls)), query)
                          THEN Append(acc, Head(ls)) ELSE acc)

RECURSIVE folded_push_loop(_, _, _)
folded_push_loop(query, ls, acc) ==
    IF ls = <<>> THEN acc
    ELSE folded_push_loop(query, Tail(ls),
                          IF contains(to_lowercase(Head(ls)), query)
                          THEN Append(acc, to_lowercase(Head(ls))) ELSE acc)

\* the loop pushing the lowercased copy instead of the line itself
CaseInsensitiveSearch_push_folded(query, text) ==
    folded_push_loop(to_lowercase(query), lines(text), <<>>)

\* the loop with results.insert(0, line) in place of results.push(line)
CaseInsensitiveSearch_insert_front(query, text) ==
    Reverse(insensitive_loop(to_lowercase(query), lines(text), <<>>))

CaseInsensitiveSearch(query, text) ==
    insensitive_loop(to_lowercase(query), lines(text), <<>>)

\* SearchStrategy::search, dispatched on the boxed strategy
search(strat, query, text) ==
    IF strat = "CaseSensitiveSearch" THEN CaseSensitiveSearch(query, text)
    ELSE CaseInsensitiveSearch(query, text)

\* a factory with no arm for true
search_strategy_factory_partial(ignore_case) ==
    IF ignore_case THEN None ELSE <<"Some", "CaseSensitiveSearch">>

search_strategy_factory(ignore_case) ==
    IF ignore_case = FALSE THEN <<"Some", "CaseSensitiveSearch">>
    ELSE <<"Some", "CaseInsensitiveSearch">>

(* ---------------------------------------------------------- Config::build *)
EnvStates == {<<"Absent">>, <<"Set", <<>>>>, <<"Set", <<"a">>>>, <<"SetNotUnicode">>}

\* env::var: Err(NotPresent), Err(NotUnicode) or Ok(value)
env_var(e) ==
    IF e[1] = "Absent" THEN <<"Err", "NotPresent">>
    ELSE IF e[1] = "SetNotUnicode" THEN <<"Err", "NotUnicode">>
    ELSE <<"Ok", e[2]>>

is_ok(r) == r[1] = "Ok"

\* Iterator::next on the argument iterator: the item and the rest
next_item(it) == IF it = <<>> THEN None ELSE <<"Some", Head(it)>>
next_rest(it) == IF it = <<>> THEN <<>> ELSE Tail(it)

\* build without the initial args.next()
build_keeping_first(a, e) ==
    IF next_item(a)[1] = "None"
    THEN <<"Err", "Didn't get a string to query">>
    ELSE IF next_item(next_rest(a))[1] = "None"
    THEN <<"Err", "Didn't get a filepath">>
    ELSE <<"Ok", [query |-> next_item(a)[2],
                  file_path |-> next_item(next_rest(a))[2],
                  ignore_case |-> is_ok(env_var(e))]>>

build(a, e) ==
    LET it1 == next_rest(a)
        it2 == next_rest(it1)
    IN  IF next_item(it1)[1] = "None"
        THEN <<"Err", "Didn't get a string to query">>
        ELSE IF next_item(it2)[1] = "None"
        THEN <<"Err", "Didn't get a filepath">>
        ELSE <<"Ok", [query |-> next_item(it1)[2],
                      file_path |-> next_item(it2)[2],
                      ignore_case |-> is_ok(env_var(e))]>>

Build ==
    /\ pc = "start"
    /\ buildResult' = build(args, env)
    /\ pc' = IF buildResult'[1] = "Ok" THEN "built" ELSE "build_failed"
    /\ UNCHANGED <<args, env, fsReads, contents, strategy, results, printed,
                   stdout, runResult>>

(* -------------------------------------------------------------------- run *)
config == buildResult[2]

ReadErrors == {"NotFound", "PermissionDenied", "InvalidData"}

\* the characters of the files the program reads
FileAlphabet == {"LF", "a"}

FileTexts == UNION {[1..k -> FileAlphabet] : k \in 0..MaxFileLen}

\* fs::read_to_string: an io::Error or the whole text of the file
ReadOutcomes ==
    {<<"Err", k>> : k \in ReadErrors} \cup {<<"Ok", c>> : c \in FileTexts}

\* line 36 with unwrap_or_default() in place of `?`
RunRead_unwrap_or_default ==
    /\ pc = "built"
    /\ \E r \in ReadOutcomes :
          /\ fsReads' = Append(fsReads, [path |-> config.file_path, outcome |-> r])
          /\ contents' = IF r[1] = "Ok" THEN <<"Some", r[2]>> ELSE <<"Some", <<>>>>
          /\ pc' = "read"
          /\ UNCHANGED runResult
    /\ UNCHANGED <<args, env, buildResult, strategy, results, printed, stdout>>

\* let contents = fs::read_to_string(config.file_path)?;
RunRead ==
    /\ pc = "built"
    /\ \E r \in ReadOutcomes :
          /\ fsReads' = Append(fsReads, [path |-> config.file_path, outcome |-> r])
          /\ IF r[1] = "Ok"
             THEN /\ contents' = <<"Some", r[2]>>
                  /\ pc' = "read"
                  /\ UNCHANGED runResult
             ELSE /\ runResult' = <<"Err", r[2]>>
                  /\ pc' = "run_failed"
                  /\ UNCHANGED contents
    /\ UNCHANGED <<args, env, buildResult, strategy, results, printed, stdout>>

\* search_strategy_factory(config.ignore_case).expect(..)
RunSelect ==
    /\ pc = "read"
    /\ LET s == search_strategy_factory(config.ignore_case)
       IN  IF s[1] = "Some"
           THEN /\ strategy' = s[2]
                /\ pc' = "selected"
           ELSE /\ pc' = "panicked"
                /\ UNCHANGED strategy
    /\ UNCHANGED <<args, env, buildResult, fsReads, contents, results, printed,
                   stdout, runResult>>

\* let results = strategy.search(&config.query, &contents);
RunSearch ==
    /\ pc = "selected"
    /\ results' = <<"Some", search(strategy, config.query, contents[2])>>
    /\ pc' = "searched"
    /\ UNCHANGED <<args, env, buildResult, fsReads, contents, strategy, printed,
                   stdout, runResult>>

\* print! in place of println!
RunPrint_no_newline ==
    /\ pc = "searched"
    /\ printed < Len(results[2])
    /\ stdout' = stdout \o results[2][printed + 1]
    /\ printed' = printed + 1
    /\ UNCHANGED <<args, env, pc, buildResult, fsReads, contents, strategy,
                   results, runResult>>

\* one iteration of `for line in results { println!("{}", line); }`
RunPrint ==
    /\ pc = "searched"
    /\ printed < Len(results[2])
    /\ stdout' = stdout \o results[2][printed + 1] \o <<"LF">>
    /\ printed' = printed + 1
    /\ UNCHANGED <<args, env, pc, buildResult, fsReads, contents, strategy,
                   results, runResult>>

\* the loop is exhausted: Ok(())
RunReturn ==
    /\ pc = "searched"
    /\ printed = Len(results[2])
    /\ runResult' = <<"Ok">>
    /\ pc' = "done"
    /\ UNCHANGED <<args, env, buildResult, fsReads, contents, strategy, results,
                   printed, stdout>>

(* --------------------------------------------------------- specifications *)
ArgValues == {<<>>, <<"A">>}

ArgLists == UNION {[1..k -> ArgValues] : k \in 0..MaxArgs}

Init ==
    /\ args \in ArgLists
    /\ env \in EnvStates
    /\ pc = "start"
    /\ buildResult = <<"Pending">>
    /\ fsReads = <<>>
    /\ contents = None
    /\ strategy = "None"
    /\ results = None
    /\ printed = 0
    /\ stdout = <<>>
    /\ runResult = <<"Pending">>

Next ==
    \/ Build
    \/ RunRead
    \/ RunSelect
    \/ RunSearch
    \/ RunPrint
    \/ RunReturn

Spec == Init /\ [][Next]_vars

\* run at the call of strategy.search, for every query, content and strategy
InitSearch ==
    \E q \in StringsUpTo(MaxQueryLen), c \in StringsUpTo(MaxContentLen),
       b \in BOOLEAN :
        /\ args = <<<<"a">>, q, <<"a">>>>
        /\ env = IF b THEN <<"Set", <<>>>> ELSE <<"Absent">>
        /\ pc = "selected"
        /\ buildResult = <<"Ok", [query |-> q, file_path |-> <<"a">>,
                                  ignore_case |-> b]>>
        /\ fsReads = <<[path |-> <<"a">>, outcome |-> <<"Ok", c>>]>>
        /\ contents = <<"Some", c>>
        /\ strategy = search_strategy_factory(b)[2]
        /\ results = None
        /\ printed = 0
        /\ stdout = <<>>
        /\ runResult = <<"Pending">>

SpecSearch == InitSearch /\ [][RunSearch]_vars

\* the program is sequential and synchronous: an enabled step is taken
FairSpec == Spec /\ WF_vars(Next)

(* ------------------------------------------------------------- properties *)
Range(s) == {s[i] : i \in 1..Len(s)}

Count(x, s) == Cardinality({i \in 1..Len(s) : s[i] = x})

\* n occurs in h as a contiguous run of characters
HasInfix(h, n) ==
    \E k \in 0..Len(h) :
        /\ k + Len(n) <= Len(h)
        /\ \A j \in 1..Len(n) : h[k + j] = n[j]

RECURSIVE IsSubsequence(_, _)
IsSubsequence(s, t) ==
    IF s = <<>> THEN TRUE
    ELSE IF t = <<>> THEN FALSE
    ELSE IF Head(s) = Head(t) THEN IsSubsequence(Tail(s), Tail(t))
    ELSE IsSubsequence(s, Tail(t))

Searched == pc = "searched"
Query == config.query
Text == contents[2]
Found == results[2]

\* C1: the case-sensitive search returns a line of the content if and only if
\* the line contains the query as an exact contiguous substring; no matching
\* line is left out and nothing but lines of the content is returned.
C1_SensitiveExactSubstring ==
    (Searched /\ strategy = "CaseSensitiveSearch") =>
        /\ \A l \in Range(lines(Text)) : l \in Range(Found) <=> HasInfix(l, Query)
        /\ Range(Found) \subseteq Range(lines(Text))

C1_Witness ==
    /\ Searched /\ strategy = "CaseSensitiveSearch"
    /\ Query # <<>>
    /\ Found # <<>>
    /\ Len(Found) < Len(lines(Text))
    /\ \E l \in Range(Found) : SubSeq(l, 1, Len(Query)) # Query

\* C2: the case-insensitive search returns a line if and only if the
\* lowercased line contains the lowercased query, and every returned line is
\* the original text of the line, not its lowercased copy.
C2_InsensitiveFoldedMatch ==
    (Searched /\ strategy = "CaseInsensitiveSearch") =>
        /\ \A l \in Range(lines(Text)) :
              l \in Range(Found) <=> HasInfix(to_lowercase(l), to_lowercase(Query))
        /\ Range(Found) \subseteq Range(lines(Text))

C2_Witness ==
    /\ Searched /\ strategy = "CaseInsensitiveSearch"
    /\ Query # <<>>
    /\ to_lowercase(Query) # Query
    /\ Len(Found) < Len(lines(Text))
    /\ \E l \in Range(Found) : to_lowercase(l) # l /\ ~HasInfix(l, Query)

\* C3: every line the case-sensitive search returns is also returned by the
\* case-insensitive search for the same query and content.
C3_SensitiveWithinInsensitive ==
    (Searched /\ strategy = "CaseSensitiveSearch") =>
        IsSubsequence(Found, CaseInsensitiveSearch(Query, Text))

NumLF(s) == Cardinality({i \in 1..Len(s) : s[i] = "LF"})

\* C4: with the empty query both strategies return every line of the
\* content in original order: one line per newline, one more for a last line
\* without a trailing newline, and nothing for empty content.
C4_EmptyQueryReturnsAllLines ==
    (Searched /\ Query = <<>>) =>
        /\ Found = lines(Text)
        /\ Len(Found) = NumLF(Text)
                          + (IF Text # <<>> /\ Text[Len(Text)] # "LF" THEN 1 ELSE 0)
        /\ \A l \in Range(Found) : HasInfix(Text, l) /\ ~HasInfix(l, <<"LF">>)
        /\ Text = <<>> => Found = <<>>

C4_Witness ==
    /\ Searched /\ Query = <<>>
    /\ strategy = "CaseInsensitiveSearch"
    /\ Len(Found) = 2
    /\ Found[1] # Found[2]
    /\ Text[Len(Text)] # "LF"

\* C5: for both strategies the result is a subsequence of the content's lines
\* in their order; every element is a line of the content, and a line that
\* is reported is reported exactly as often as it occurs in the content.
C5_ResultIsOrderedSubsequence ==
    Searched =>
        /\ IsSubsequence(Found, lines(Text))
        /\ \A l \in Range(Found) : Count(l, Found) = Count(l, lines(Text))

C5_Witness ==
    /\ Searched /\ strategy = "CaseInsensitiveSearch"
    /\ Query # <<>>
    /\ Len(Found) = 2
    /\ Found[1] # Found[2]

\* C6: in the Config that build returns, ignore_case is true if and only if
\* IGNORE_CASE is set, whatever its value.
C6_IgnoreCaseIffSet ==
    pc = "built" => (config.ignore_case <=> env[1] # "Absent")

\* C7: build discards the first argument and fails with a missing-argument
\* error exactly when fewer than two arguments follow it, and then no Config
\* exists and no file is read; otherwise query is the second argument and
\* file_path the third.
C7_BuildMissingArgument ==
    pc # "start" =>
        /\ buildResult[1] = "Err" <=> Len(args) < 3
        /\ buildResult[1] = "Err" =>
              /\ buildResult[2] = (IF Len(args) < 2
                                   THEN "Didn't get a string to query"
                                   ELSE "Didn't get a filepath")
              /\ pc = "build_failed"
              /\ fsReads = <<>>
        /\ buildResult[1] # "Err" =>
              /\ buildResult[1] = "Ok"
              /\ config.query = args[2]
              /\ config.file_path = args[3]

C7_Witness ==
    /\ pc = "build_failed"
    /\ Len(args) = 2
    /\ buildResult[2] = "Didn't get a filepath"
    /\ fsReads = <<>>

\* C8: when the file cannot be read, run returns that read error, and no
\* strategy is selected, no search is run and nothing is written to stdout.
C8_ReadFailureStopsRun ==
    (fsReads # <<>> /\ fsReads[1].outcome[1] = "Err") =>
        /\ pc = "run_failed"
        /\ Len(fsReads) = 1
        /\ fsReads[1].path = config.file_path
        /\ runResult[1] = "Err"
        /\ runResult[2] = fsReads[1].outcome[2]
        /\ contents[1] = "None"
        /\ strategy = "None"
        /\ results[1] = "None"
        /\ printed = 0
        /\ stdout = <<>>

C8_Witness ==
    /\ pc = "run_failed"
    /\ fsReads[1].outcome[1] = "Err"
    /\ runResult[1] = "Err"
    /\ runResult[2] = "InvalidData"

\* C9: the factory yields exactly one strategy for each value of ignore_case,
\* CaseSensitiveSearch for false and CaseInsensitiveSearch for true, so run
\* never aborts on a missing strategy.
C9_FactoryTotal ==
    /\ pc # "panicked"
    /\ pc \in {"selected", "searched", "done"} =>
          strategy = (IF config.ignore_case THEN "CaseInsensitiveSearch"
                      ELSE "CaseSensitiveSearch")
    /\ pc \in {"start", "built", "build_failed", "read", "run_failed"} =>
          strategy = "None"

C9_Witness ==
    /\ pc = "selected"
    /\ config.ignore_case
    /\ strategy = "CaseInsensitiveSearch"

\* the lines the strategy chosen by the flag returns for the file that was read
Expected ==
    IF config.ignore_case
    THEN CaseInsensitiveSearch(config.query, fsReads[1].outcome[2])
    ELSE CaseSensitiveSearch(config.query, fsReads[1].outcome[2])

\* the first n lines of ls, each followed by a newline
RECURSIVE Emitted(_, _)
Emitted(ls, n) ==
    IF n = 0 THEN <<>> ELSE Emitted(ls, n - 1) \o ls[n] \o <<"LF">>

ReadOk == fsReads # <<>> /\ fsReads[1].outcome[1] = "Ok"

C10_State ==
    /\ stdout # <<>> => ReadOk /\ contents = <<"Some", fsReads[1].outcome[2]>>
    /\ ReadOk =>
          /\ pc \in {"read", "selected", "searched", "done"}
          /\ runResult[1] # "Err"
          /\ printed <= Len(Expected)
          /\ stdout = Emitted(Expected, printed)
          /\ NumLF(stdout) = printed
    /\ pc = "done" =>
          /\ ReadOk
          /\ runResult = <<"Ok">>
          /\ printed = Len(Expected)

====
